---- MODULE Spec2Model ----
(***************************************************************************)
(* A model of lsst.ctrl.bps.report (python/lsst/ctrl/bps/report.py): the   *)
(* run summary row (attention flag, percent succeeded), the grouping of    *)
(* jobs by state and by label, and the per-label breakdown printed by      *)
(* print_single_run_summary.                                               *)
(*                                                                         *)
(* Python strings are sequences of one-character strings, so that          *)
(* str.split, str.startswith, int() and sorted() are computed on the       *)
(* characters.  A raised exception is recorded in the variable `raised`    *)
(* and ends the call (pc = "raised").                                      *)
(***************************************************************************)
EXTENDS Integers, Sequences, FiniteSets, TLC

VARIABLES run_report, pc, summary, by_state, by_label, label_order,
          by_label_totals, details, warnings, lines, raised

vars == <<run_report, pc, summary, by_state, by_label, label_order,
          by_label_totals, details, warnings, lines, raised>>

(***************************************************************************)
(* Bounds of the enumerated inputs.                                        *)
(***************************************************************************)
\* largest total_number_jobs of a run report given to add_single_run_summary
MaxTotal == 100
\* longest job list given to group_jobs_by_state
MaxGroupJobs == 3
\* longest job list of a run report given to print_single_run_summary
MaxJobs == 2
\* most ';'-separated parts of a run_summary string
MaxParts == 2

(***************************************************************************)
(* The state vocabulary.                                                   *)
(***************************************************************************)
WmsStates == <<"UNREADY", "READY", "RUNNING", "SUCCEEDED", "FAILED", "DELETED", "HELD">>

StateSet == {WmsStates[k] : k \in 1..Len(WmsStates)}

(***************************************************************************)
(* Strings.                                                                *)
(***************************************************************************)
\* The characters of the modelled strings, in code point order.
Chars == <<"0", "1", "2", "3", "4", "5", "6", "7", "8", "9", ":", ";",
           "I", "K", "N", "U", "X",
           "a", "c", "e", "i", "k", "l", "n", "p", "r", "s", "t", "x">>

CodePoint(c) == CHOOSE k \in 1..Len(Chars) : Chars[k] = c

Digits == <<"0", "1", "2", "3", "4", "5", "6", "7", "8", "9">>

IsDigit(c) == \E k \in 1..10 : Digits[k] = c

DigitValue(c) == (CHOOSE k \in 1..10 : Digits[k] = c) - 1

\* str < str: lexicographic on code points, a proper prefix first.
RECURSIVE StrLess(_, _)
StrLess(a, b) ==
    IF b = <<>> THEN FALSE
    ELSE IF a = <<>> THEN TRUE
    ELSE IF a[1] # b[1] THEN CodePoint(a[1]) < CodePoint(b[1])
    ELSE StrLess(Tail(a), Tail(b))

\* sorted(keys): the keys in ascending order.
RECURSIVE Sorted(_)
Sorted(S) ==
    IF S = {} THEN <<>>
    ELSE LET m == CHOOSE x \in S : \A y \in S \ {x} : StrLess(x, y)
         IN  <<m>> \o Sorted(S \ {m})

\* str.split(sep) for a one-character separator.
RECURSIVE Split(_, _)
Split(s, sep) ==
    IF \A k \in 1..Len(s) : s[k] # sep THEN <<s>>
    ELSE LET k == CHOOSE k \in 1..Len(s) :
                      s[k] = sep /\ \A j \in 1..(k - 1) : s[j] # sep
         IN  <<SubSeq(s, 1, k - 1)>> \o Split(SubSeq(s, k + 1, Len(s)), sep)

\* str.startswith(prefix)
StartsWith(s, prefix) ==
    Len(s) >= Len(prefix) /\ SubSeq(s, 1, Len(prefix)) = prefix

\* int(str) on the modelled characters: ValueError unless the string is a
\* non-empty run of decimal digits.
RECURSIVE DigitsValue(_, _)
DigitsValue(s, acc) ==
    IF s = <<>> THEN acc ELSE DigitsValue(Tail(s), 10 * acc + DigitValue(s[1]))

IntOfStr(s) ==
    IF s # <<>> /\ \A k \in 1..Len(s) : IsDigit(s[k])
    THEN [ok |-> TRUE, value |-> DigitsValue(s, 0)]
    ELSE [ok |-> FALSE, value |-> 0]

\* f"{n}" for an integer n >= 0.
RECURSIVE DecimalStr(_)
DecimalStr(n) ==
    IF n < 10 THEN <<Digits[n + 1]>>
    ELSE DecimalStr(n \div 10) \o <<Digits[(n % 10) + 1]>>

(***************************************************************************)
(* IEEE 754 binary64 arithmetic, as far as `succeeded / total * 100` needs *)
(* it.  A positive double is [exp, mant]: mant is its 53-bit significand   *)
(* as five digits <<1, d1, d2, d3, d4>>, the leading 1 and four digits of  *)
(* 13 bits each, and its value is (mant / 2^52) * 2^exp.  Zero is          *)
(* [zero |-> TRUE].                                                        *)
(***************************************************************************)
RECURSIVE Pow2(_)
Pow2(n) == IF n = 0 THEN 1 ELSE 2 * Pow2(n - 1)

\* bits of one significand digit below the leading 1 (52 = 4 * 13)
DigitBits == 13

DigitBase == Pow2(DigitBits)

\* the k >= 0 with d * 2^k <= n < d * 2^(k+1), for n >= d
RECURSIVE ExpUp(_, _)
ExpUp(n, d) == IF n < 2 * d THEN 0 ELSE 1 + ExpUp(n, 2 * d)

\* the least k >= 0 with n * 2^k >= d
RECURSIVE ExpDown(_, _)
ExpDown(n, d) == IF n >= d THEN 0 ELSE 1 + ExpDown(2 * n, d)

\* the number of bits of n > 0
RECURSIVE BitLen(_)
BitLen(n) == IF n = 0 THEN 0 ELSE 1 + BitLen(n \div 2)

RECURSIVE Increment(_)
Increment(mant) ==
    IF mant = <<>> THEN <<>>
    ELSE LET n == Len(mant)
         IN  IF mant[n] < DigitBase - 1
             THEN SubSeq(mant, 1, n - 1) \o <<mant[n] + 1>>
             ELSE Increment(SubSeq(mant, 1, n - 1)) \o <<0>>

\* the next double above
NextUp(exp, mant) ==
    IF \A k \in 2..Len(mant) : mant[k] = DigitBase - 1
    THEN [zero |-> FALSE, exp |-> exp + 1, mant |-> <<1, 0, 0, 0, 0>>]
    ELSE [zero |-> FALSE, exp |-> exp, mant |-> Increment(mant)]

\* round to nearest, ties to even: `above` is the discarded part compared
\* with half a unit in the last place (-1 below, 0 a tie, 1 above)
RoundNearestEven(exp, mant, above) ==
    IF above > 0 \/ (above = 0 /\ mant[Len(mant)] % 2 = 1)
    THEN NextUp(exp, mant)
    ELSE [zero |-> FALSE, exp |-> exp, mant |-> mant]

\* int / int (true division) of integers s >= 0, t > 0: the double nearest s/t
FloatDiv(s, t) ==
    IF s = 0 THEN [zero |-> TRUE, exp |-> 0, mant |-> <<>>]
    ELSE LET up   == IF s >= t THEN ExpUp(s, t) ELSE 0
             down == IF s >= t THEN 0 ELSE ExpDown(s, t)
             num  == s * Pow2(down)
             den  == t * Pow2(up)
             r0   == num - den
             d1   == (r0 * DigitBase) \div den
             r1   == (r0 * DigitBase) % den
             d2   == (r1 * DigitBase) \div den
             r2   == (r1 * DigitBase) % den
             d3   == (r2 * DigitBase) \div den
             r3   == (r2 * DigitBase) % den
             d4   == (r3 * DigitBase) \div den
             r4   == (r3 * DigitBase) % den
             above == IF 2 * r4 > den THEN 1 ELSE IF 2 * r4 = den THEN 0 ELSE -1
         IN  RoundNearestEven(up - down, <<1, d1, d2, d3, d4>>, above)

\* double * int for a small integer k > 0: the double nearest the product
FloatMul(f, k) ==
    IF f.zero THEN f
    ELSE LET c4 == k * f.mant[5]
             c3 == k * f.mant[4] + (c4 \div DigitBase)
             c2 == k * f.mant[3] + (c3 \div DigitBase)
             c1 == k * f.mant[2] + (c2 \div DigitBase)
             p0 == k * f.mant[1] + (c1 \div DigitBase)
             p1 == c1 % DigitBase
             p2 == c2 % DigitBase
             p3 == c3 % DigitBase
             p4 == c4 % DigitBase
             drop == BitLen(p0) - 1
             D  == Pow2(drop)
             n1 == ((p0 % D) * DigitBase + p1) \div D
             n2 == ((p1 % D) * DigitBase + p2) \div D
             n3 == ((p2 % D) * DigitBase + p3) \div D
             n4 == ((p3 % D) * DigitBase + p4) \div D
             tail == p4 % D
             above == IF 2 * tail > D THEN 1 ELSE IF 2 * tail = D THEN 0 ELSE -1
         IN  RoundNearestEven(f.exp + drop, <<1, n1, n2, n3, n4>>, above)

\* int(float) for a double >= 0 below 2^26: truncation
FloatToInt(f) ==
    IF f.zero \/ f.exp < 0 THEN 0
    ELSE (f.mant[1] * DigitBase * DigitBase + f.mant[2] * DigitBase + f.mant[3])
             \div Pow2(2 * DigitBits - f.exp)

(***************************************************************************)
(* add_single_run_summary                                                  *)
(***************************************************************************)
\* job_state_counts.get(state, 0)
GetCount(counts, state) == IF state \in DOMAIN counts THEN counts[state] ELSE 0

\* RunFlag without the test of the run's own state
RunFlagAnyRunState(rr) ==
    IF GetCount(rr.job_state_counts, "FAILED") # 0 THEN "F"
    ELSE IF GetCount(rr.job_state_counts, "DELETED") # 0 THEN "D"
    ELSE IF GetCount(rr.job_state_counts, "HELD") # 0 THEN "H"
    ELSE " "

\* the attention flag of a run
RunFlag(rr) ==
    IF rr.state = "RUNNING"
    THEN IF GetCount(rr.job_state_counts, "FAILED") # 0 THEN "F"
         ELSE IF GetCount(rr.job_state_counts, "DELETED") # 0 THEN "D"
         ELSE IF GetCount(rr.job_state_counts, "HELD") # 0 THEN "H"
         ELSE " "
    ELSE " "

\* the percent-succeeded field of a run
PercentSucceeded(rr) ==
    IF rr.total_number_jobs # 0
    THEN LET succeeded == GetCount(rr.job_state_counts, "SUCCEEDED")
         IN  DecimalStr(FloatToInt(FloatMul(FloatDiv(succeeded, rr.total_number_jobs), 100)))
    ELSE <<"U", "N", "K">>

\* the row added to the summary table (the identifying fields are copied
\* from the run report unchanged)
SummaryRow(rr) ==
    [flag |-> RunFlag(rr), state |-> rr.state, percent |-> PercentSucceeded(rr)]

(***************************************************************************)
(* group_jobs_by_state, group_jobs_by_label                                *)
(***************************************************************************)
RECURSIVE GroupByStateLoop(_, _)
GroupByStateLoop(jobs, acc) ==
    IF jobs = <<>> THEN acc
    ELSE GroupByStateLoop(Tail(jobs),
                          [acc EXCEPT ![Head(jobs).state] = Append(@, Head(jobs))])

\* GroupJobsByState with a bucket made only when a job of the state is met
GroupJobsByStateLazy(jobs) ==
    LET seen == {jobs[k].state : k \in 1..Len(jobs)}
    IN  [s \in seen |-> GroupByStateLoop(jobs, [x \in StateSet |-> <<>>])[s]]

GroupJobsByState(jobs) == GroupByStateLoop(jobs, [s \in StateSet |-> <<>>])

RECURSIVE GroupByLabelLoop(_, _)
GroupByLabelLoop(jobs, acc) ==
    IF jobs = <<>> THEN acc
    ELSE LET job   == Head(jobs)
             group == IF job.label \in DOMAIN acc THEN acc[job.label] ELSE <<>>
         IN  GroupByLabelLoop(Tail(jobs), (job.label :> Append(group, job)) @@ acc)

GroupJobsByLabel(jobs) == GroupByLabelLoop(jobs, <<>>)

(***************************************************************************)
(* print_single_run_summary                                                *)
(***************************************************************************)
PipetaskInit == <<"p", "i", "p", "e", "t", "a", "s", "k", "I", "n", "i", "t">>

TotalLabel == <<"T", "O", "T", "A", "L">>

OrderWarning == "Warning: Cannot determine order of pipeline.  Instead printing alphabetical."

\* sum(mapping.values())
RECURSIVE SumValues(_)
SumValues(f) ==
    IF DOMAIN f = {} THEN 0
    ELSE LET k == CHOOSE k \in DOMAIN f : TRUE
         IN  f[k] + SumValues([j \in DOMAIN f \ {k} |-> f[j]])

\* the loop over run_summary.split(";"): acc holds label_order,
\* by_label_totals and the exception raised, if any
RECURSIVE ParseParts(_, _)
ParseParts(parts, acc) ==
    IF parts = <<>> THEN acc
    ELSE LET fields == Split(Head(parts), ":")
         IN  IF Len(fields) # 2 THEN [acc EXCEPT !.raised = "ValueError"]
             ELSE LET label == fields[1]
                      count == IntOfStr(fields[2])
                      order == Append(acc.label_order, label)
                  IN  IF ~count.ok
                      THEN [acc EXCEPT !.label_order = order, !.raised = "ValueError"]
                      ELSE ParseParts(Tail(parts),
                               [acc EXCEPT !.label_order = order,
                                           !.by_label_totals = (label :> count.value) @@ @])

\* label_order and by_label_totals of a run
DetermineLabelOrder(run_summary, labels) ==
    IF run_summary # <<>>
    THEN LET first == IF ~StartsWith(run_summary, PipetaskInit)
                      THEN [label_order |-> <<PipetaskInit>>,
                            by_label_totals |-> (PipetaskInit :> 1),
                            warnings |-> <<>>, raised |-> "none"]
                      ELSE [label_order |-> <<>>, by_label_totals |-> <<>>,
                            warnings |-> <<>>, raised |-> "none"]
         IN  ParseParts(Split(run_summary, ";"), first)
    ELSE [label_order |-> Sorted(labels), by_label_totals |-> <<>>,
          warnings |-> <<OrderWarning>>, raised |-> "none"]

\* TotalRow with the state columns counted from the job reports
TotalRowFromJobs(rr, totals) ==
    [label    |-> TotalLabel,
     counts   |-> [s \in StateSet |->
                      Cardinality({k \in 1..Len(rr.jobs) : rr.jobs[k].state = s})],
     expected |-> SumValues(totals)]

\* the TOTAL row
TotalRow(rr, totals) ==
    [label    |-> TotalLabel,
     counts   |-> [s \in StateSet |-> rr.job_state_counts[s]],
     expected |-> SumValues(totals)]

\* LabelCounts with the shortfall against the expected total added to
\* UNREADY for a label with observed jobs too
LabelCountsReconciled(label, grouped, totals) ==
    LET observed == IF label \in DOMAIN grouped
                    THEN [s \in StateSet |->
                             Len(GroupJobsByState(grouped[label])[s])]
                    ELSE [s \in StateSet |-> 0]
    IN  IF label \in DOMAIN totals /\ SumValues(observed) < totals[label]
        THEN [observed EXCEPT !["UNREADY"] = @ + totals[label] - SumValues(observed)]
        ELSE observed

\* the state counts of one label's row
LabelCounts(label, grouped, totals) ==
    IF label \in DOMAIN grouped
    THEN LET by_label_state == GroupJobsByState(grouped[label])
         IN  [s \in StateSet |-> Len(by_label_state[s])]
    ELSE IF label \in DOMAIN totals
    THEN LET zero == [s \in StateSet |-> 0]
             already_counted == SumValues(zero)
         IN  IF already_counted # totals[label]
             THEN [zero EXCEPT !["UNREADY"] = @ + totals[label] - already_counted]
             ELSE zero
    ELSE [s \in StateSet |-> -1]

\* lines.insert(3, lines[1]) on the formatted table: two heading lines, then
\* one line per row
FormatLines(rows) ==
    LET formatted == <<"header", "rule">> \o [k \in 1..Len(rows) |-> rows[k].label]
    IN  SubSeq(formatted, 1, 3) \o <<formatted[2]>>
            \o SubSeq(formatted, 4, Len(formatted))

(***************************************************************************)
(* Run reports                                                             *)
(***************************************************************************)
EmptyMap == <<>>

Isr == <<"i", "s", "r">>
Cal == <<"c", "a", "l">>

SeqsUpTo(S, n) == UNION {[1..k -> S] : k \in 0..n}

\* job lists: the k-th job has wms_id k
JobLists(labels, states, n) ==
    {[k \in 1..Len(q) |-> [wms_id |-> k, label |-> q[k][1], state |-> q[k][2]]] :
        q \in SeqsUpTo(labels \X states, n)}

\* the number of jobs of each state
CountsOf(jobs) ==
    [s \in StateSet |-> Cardinality({k \in 1..Len(jobs) : jobs[k].state = s})]

\* run reports summarised by add_single_run_summary: the counts add up to
\* total_number_jobs
SummaryReports ==
    {[state |-> c[1], total_number_jobs |-> c[2], jobs |-> <<>>, run_summary |-> <<>>,
      job_state_counts |->
          [s \in StateSet |-> CASE s = "SUCCEEDED" -> c[3]
                                [] s = "FAILED" -> c[4]
                                [] s = "DELETED" -> c[5]
                                [] s = "HELD" -> c[6]
                                [] s = "READY" -> c[2] - (c[3] + c[4] + c[5] + c[6])
                                [] OTHER -> 0]] :
        c \in {d \in StateSet \X (0..MaxTotal) \X (0..MaxTotal)
                         \X (0..1) \X (0..1) \X (0..1) :
                   d[3] + d[4] + d[5] + d[6] <= d[2]}}

InitVars(rr) ==
    /\ run_report = rr
    /\ pc = "start"
    /\ summary = <<>>
    /\ by_state = EmptyMap
    /\ by_label = EmptyMap
    /\ label_order = <<>>
    /\ by_label_totals = EmptyMap
    /\ details = <<>>
    /\ warnings = <<>>
    /\ lines = <<>>
    /\ raised = "none"

(***************************************************************************)
(* add_single_run_summary on one run report                                *)
(***************************************************************************)
InitSummary == \E rr \in SummaryReports : InitVars(rr)

AddSingleRunSummary ==
    /\ pc = "start"
    /\ summary' = Append(summary, SummaryRow(run_report))
    /\ pc' = "done"
    /\ UNCHANGED <<run_report, by_state, by_label, label_order, by_label_totals,
                   details, warnings, lines, raised>>

NextSummary == AddSingleRunSummary

SpecSummary == InitSummary /\ [][NextSummary]_vars

(***************************************************************************)
(* group_jobs_by_state on one job list                                     *)
(***************************************************************************)
GroupReports ==
    {[state |-> "RUNNING", total_number_jobs |-> Len(jobs), jobs |-> jobs,
      run_summary |-> <<>>, job_state_counts |-> CountsOf(jobs)] :
        jobs \in JobLists({Isr, Cal}, StateSet, MaxGroupJobs)}

InitGroup == \E rr \in GroupReports : InitVars(rr)

CallGroupJobsByState ==
    /\ pc = "start"
    /\ by_state' = GroupJobsByState(run_report.jobs)
    /\ pc' = "done"
    /\ UNCHANGED <<run_report, summary, by_label, label_order, by_label_totals,
                   details, warnings, lines, raised>>

NextGroup == CallGroupJobsByState

SpecGroup == InitGroup /\ [][NextGroup]_vars

(***************************************************************************)
(* print_single_run_summary on one run report                              *)
(***************************************************************************)
Part(label, count) == label \o <<":">> \o count

\* the ';'-separated parts run_summary strings are built from: well-formed
\* "label:count" parts, then an empty part, a part with no ':', a part with
\* two ':' and a part whose count is no integer
SummaryParts ==
    {Part(PipetaskInit, <<"1">>), Part(PipetaskInit \o <<"X">>, <<"1">>),
     Part(Isr, <<"0">>), Part(Isr, <<"2">>), Part(Cal, <<"2">>),
     <<>>, Isr, Part(Isr, <<"1">>) \o <<":", "2">>, Part(Isr, <<"x">>)}

RECURSIVE Join(_)
Join(parts) ==
    IF parts = <<>> THEN <<>>
    ELSE IF Len(parts) = 1 THEN parts[1]
    ELSE parts[1] \o <<";">> \o Join(Tail(parts))

\* run_summary strings; the empty string stands for "" and for None, which
\* `if run_report.run_summary` does not tell apart
RunSummaries == {Join(q) : q \in SeqsUpTo(SummaryParts, MaxParts)}

PrintJobStates == {"SUCCEEDED", "FAILED"}

\* run reports printed by print_single_run_summary; `unlisted` jobs are
\* counted in job_state_counts as UNREADY and have no job report yet
PrintReports ==
    {[state |-> "RUNNING", total_number_jobs |-> Len(c[1]) + c[3], jobs |-> c[1],
      run_summary |-> c[2],
      job_state_counts |-> [CountsOf(c[1]) EXCEPT !["UNREADY"] = @ + c[3]]] :
        c \in JobLists({PipetaskInit, Isr}, PrintJobStates, MaxJobs) \X RunSummaries \X (0..1)}

InitPrint == \E rr \in PrintReports : InitVars(rr)

\* lines 199-209: the run's summary row, then the jobs grouped by label
PrintRunSummary ==
    /\ pc = "start"
    /\ summary' = Append(summary, SummaryRow(run_report))
    /\ by_label' = GroupJobsByLabel(run_report.jobs)
    /\ pc' = "order"
    /\ UNCHANGED <<run_report, by_state, label_order, by_label_totals, details,
                   warnings, lines, raised>>

\* lines 212-225: the label order and the expected totals
CountLabels ==
    /\ pc = "order"
    /\ LET r == DetermineLabelOrder(run_report.run_summary, DOMAIN by_label)
       IN  /\ label_order' = r.label_order
           /\ by_label_totals' = r.by_label_totals
           /\ warnings' = r.warnings
           /\ raised' = r.raised
           /\ pc' = IF r.raised = "none" THEN "total" ELSE "raised"
    /\ UNCHANGED <<run_report, summary, by_state, by_label, details, lines>>

\* lines 228-234: the table and its TOTAL row
AddTotalRow ==
    /\ pc = "total"
    /\ details' = Append(details, TotalRow(run_report, by_label_totals))
    /\ pc' = "rows"
    /\ UNCHANGED <<run_report, summary, by_state, by_label, label_order,
                   by_label_totals, warnings, lines, raised>>

\* the label of the next row: rows 2, 3, ... of details are those of
\* label_order[1], label_order[2], ...
NextLabel == label_order[Len(details)]

\* lines 236-254: one iteration of the loop over label_order;
\* by_label_totals[label] on line 253 raises KeyError for a missing label
AddLabelRow ==
    /\ pc = "rows"
    /\ Len(details) <= Len(label_order)
    /\ by_state' = IF NextLabel \in DOMAIN by_label
                   THEN GroupJobsByState(by_label[NextLabel])
                   ELSE by_state
    /\ IF NextLabel \in DOMAIN by_label_totals
       THEN /\ details' = Append(details,
                    [label    |-> NextLabel,
                     counts   |-> LabelCounts(NextLabel, by_label, by_label_totals),
                     expected |-> by_label_totals[NextLabel]])
            /\ UNCHANGED <<pc, raised>>
       ELSE /\ raised' = "KeyError"
            /\ pc' = "raised"
            /\ UNCHANGED details
    /\ UNCHANGED <<run_report, summary, by_label, label_order, by_label_totals,
                   warnings, lines>>

\* lines 256-263: the table is formatted and printed
PrintDetails ==
    /\ pc = "rows"
    /\ Len(details) > Len(label_order)
    /\ lines' = FormatLines(details)
    /\ pc' = "done"
    /\ UNCHANGED <<run_report, summary, by_state, by_label, label_order,
                   by_label_totals, details, warnings, raised>>

NextPrint == PrintRunSummary \/ CountLabels \/ AddTotalRow \/ AddLabelRow \/ PrintDetails

SpecPrint == InitPrint /\ [][NextPrint]_vars

(***************************************************************************)
(* Properties                                                              *)
(***************************************************************************)
Jobs == run_report.jobs

Counts == run_report.job_state_counts

\* how often x occurs in the sequence q
Occurrences(q, x) == Cardinality({k \in 1..Len(q) : q[k] = x})

\* the number of jobs of the run with this label and state
Observed(label, state) ==
    Cardinality({k \in 1..Len(Jobs) : Jobs[k].label = label /\ Jobs[k].state = state})

ObservedLabels == {Jobs[k].label : k \in 1..Len(Jobs)}

\* the parts of run_summary, and the label and count text of a part
DeclaredParts == Split(run_report.run_summary, ";")

DeclaredLabel(k) == Split(DeclaredParts[k], ":")[1]

DeclaredCount(k) == IntOfStr(Split(DeclaredParts[k], ":")[2]).value

DeclaredLabels == [k \in 1..Len(DeclaredParts) |-> DeclaredLabel(k)]

\* run_summary is present and every part of it reads "label:count"
WellFormed ==
    /\ run_report.run_summary # <<>>
    /\ \A k \in 1..Len(DeclaredParts) :
           /\ Len(Split(DeclaredParts[k], ":")) = 2
           /\ IntOfStr(Split(DeclaredParts[k], ":")[2]).ok

Malformed == run_report.run_summary # <<>> /\ ~WellFormed

\* the expected total of a label of the label order: that of its last
\* declaration, and 1 for the synthetic pipetaskInit entry
ExpectedTotal(label) ==
    LET ks == {k \in 1..Len(DeclaredParts) : DeclaredLabel(k) = label}
    IN  IF ks = {} THEN 1
        ELSE DeclaredCount(CHOOSE k \in ks : \A j \in ks : j <= k)

\* the label order has been determined without an error
OrderDetermined == pc \in {"total", "rows", "done"} \/ raised = "KeyError"

\* the rows of the breakdown below the TOTAL row
LabelRows == SubSeq(details, 2, Len(details))

RECURSIVE SumExpected(_)
SumExpected(rows) ==
    IF rows = <<>> THEN 0 ELSE Head(rows).expected + SumExpected(Tail(rows))

\* C1: group_jobs_by_state returns a mapping with a key for every vocabulary
\* state, every job is in the bucket of its own state exactly once and in no
\* other bucket, and the bucket lengths add up to the number of jobs.
GroupByStateIsPartition ==
    pc = "done" =>
        /\ DOMAIN by_state = StateSet
        /\ \A k \in 1..Len(Jobs) : \A s \in StateSet :
               Occurrences(by_state[s], Jobs[k]) = IF s = Jobs[k].state THEN 1 ELSE 0
        /\ SumValues([s \in StateSet |-> Len(by_state[s])]) = Len(Jobs)

\* three jobs grouped: two share a bucket, the third has its own, and the
\* other buckets are empty
GroupByStateWitness ==
    /\ pc = "done"
    /\ Len(Jobs) = 3
    /\ Len(by_state["FAILED"]) = 2
    /\ Len(by_state["HELD"]) = 1
    /\ by_state["READY"] = <<>>

\* C2: the attention flag is "F" for a RUNNING run with failed jobs, else "D"
\* for a RUNNING run with deleted jobs, else "H" for a RUNNING run with held
\* jobs, else " "; a run that is not RUNNING always gets " ".
FlagByPriority ==
    pc = "done" =>
        LET running == run_report.state = "RUNNING"
        IN  /\ Len(summary) = 1
            /\ (running /\ Counts["FAILED"] > 0) => summary[1].flag = "F"
            /\ (running /\ Counts["FAILED"] = 0 /\ Counts["DELETED"] > 0)
                   => summary[1].flag = "D"
            /\ (running /\ Counts["FAILED"] = 0 /\ Counts["DELETED"] = 0
                        /\ Counts["HELD"] > 0) => summary[1].flag = "H"
            /\ (running /\ Counts["FAILED"] = 0 /\ Counts["DELETED"] = 0
                        /\ Counts["HELD"] = 0) => summary[1].flag = " "
            /\ ~running => summary[1].flag = " "

\* a RUNNING run with deleted and held jobs and no failed job is flagged "D"
FlagWitness ==
    /\ pc = "done"
    /\ run_report.state = "RUNNING"
    /\ Counts["FAILED"] = 0
    /\ Counts["DELETED"] = 1
    /\ Counts["HELD"] = 1
    /\ summary[1].flag = "D"

\* C3: the percent-succeeded field is "UNK" when total_number_jobs is 0 and
\* otherwise the decimal rendering of floor(succeeded * 100 / total_number_jobs).
PercentIsFloor ==
    pc = "done" =>
        summary[1].percent =
            IF run_report.total_number_jobs = 0 THEN <<"U", "N", "K">>
            ELSE DecimalStr((Counts["SUCCEEDED"] * 100) \div run_report.total_number_jobs)

\* C4: with run_summary present, the label order is the declared labels in
\* declared order, with pipetaskInit prepended if and only if the first
\* declared label is not exactly "pipetaskInit".
PrependUnlessFirstLabelIsPipetaskInit ==
    (WellFormed /\ OrderDetermined) =>
        label_order = (IF DeclaredLabels[1] # PipetaskInit
                       THEN <<PipetaskInit>> ELSE <<>>) \o DeclaredLabels

\* C5: with run_summary absent the call does not fail; it warns, orders the
\* observed labels alphabetically and completes the breakdown with one row
\* per observed label carrying that label's per-state job counts.
AbsentRunSummaryCompletes ==
    run_report.run_summary = <<>> =>
        /\ raised = "none"
        /\ pc = "done" =>
               /\ warnings = <<OrderWarning>>
               /\ label_order = Sorted(ObservedLabels)
               /\ Len(details) = 1 + Len(label_order)
               /\ \A k \in 1..Len(label_order) :
                      /\ details[k + 1].label = label_order[k]
                      /\ \A s \in StateSet :
                             details[k + 1].counts[s] = Observed(label_order[k], s)

\* C6: with a malformed run_summary the call does not end with an error; it
\* warns, falls back to the alphabetical order of the observed labels and
\* produces the breakdown.
MalformedRunSummaryRecovers ==
    Malformed =>
        /\ raised = "none"
        /\ pc = "done" =>
               /\ warnings = <<OrderWarning>>
               /\ label_order = Sorted(ObservedLabels)
               /\ Len(details) = 1 + Len(label_order)

\* C7: once the label order is determined the call does not abort, and the
\* finished breakdown is the TOTAL row followed by exactly one row per entry
\* of the label order, in that order.
OneRowPerLabel ==
    OrderDetermined =>
        /\ raised = "none"
        /\ pc = "done" =>
               /\ Len(details) = 1 + Len(label_order)
               /\ details[1].label = TotalLabel
               /\ \A k \in 1..Len(label_order) : details[k + 1].label = label_order[k]

\* Every label of the label order is observed among the jobs or has an
\* expected total, so no row of a label known to neither is ever built.
EveryLabelKnown ==
    OrderDetermined =>
        \A k \in 1..Len(label_order) :
            label_order[k] \in DOMAIN by_label \cup DOMAIN by_label_totals

\* C9: the TOTAL row's EXPECTED column is the sum of the EXPECTED columns of
\* all per-label rows, and its state columns are job_state_counts.
TotalExpectedIsSumOfRows ==
    pc = "done" =>
        /\ details[1].expected = SumExpected(LabelRows)
        /\ \A s \in StateSet : details[1].counts[s] = Counts[s]

\* C9, amended: the TOTAL row's EXPECTED column is the sum of the expected
\* totals of the distinct labels of the label order (0 with run_summary
\* absent), each label counted once with the total of its last declaration;
\* it is the sum over the per-label rows when no label repeats.  The TOTAL
\* row's state columns are job_state_counts.
TotalExpectedIsSumOverDistinctLabels ==
    Len(details) >= 1 =>
        LET labels == {label_order[k] : k \in 1..Len(label_order)}
        IN  /\ details[1].label = TotalLabel
            /\ \A s \in StateSet : details[1].counts[s] = Counts[s]
            /\ run_report.run_summary = <<>> => details[1].expected = 0
            /\ WellFormed =>
                   details[1].expected = SumValues([l \in labels |-> ExpectedTotal(l)])
            /\ (pc = "done" /\ Cardinality(labels) = Len(label_order)) =>
                   details[1].expected = SumExpected(LabelRows)

\* a finished breakdown of a run_summary that declares isr twice, with a job
\* counted in job_state_counts that has no job report
TotalExpectedWitness ==
    /\ pc = "done"
    /\ label_order = <<PipetaskInit, Isr, Isr>>
    /\ details[1].expected = 3
    /\ SumExpected(LabelRows) = 5
    /\ Counts["UNREADY"] = 1
    /\ Len(Jobs) = 1

\* C10: in every row of a label of the label order, if the label has observed
\* jobs each state count is the number of observed jobs with that label in
\* that state, whatever the expected total; if it has none and an expected
\* total n, UNREADY is n and every other state count is 0.
LabelRowCounts ==
    (WellFormed \/ run_report.run_summary = <<>>) =>
        \A k \in 1..Len(LabelRows) :
            LET row   == LabelRows[k]
                label == label_order[k]
            IN  /\ row.label = label
                /\ label \in ObservedLabels =>
                       \A s \in StateSet : row.counts[s] = Observed(label, s)
                /\ label \notin ObservedLabels =>
                       \A s \in StateSet :
                           row.counts[s] = IF s = "UNREADY" THEN ExpectedTotal(label) ELSE 0

\* a finished breakdown with a label whose single observed job falls short
\* of its expected total of 2, and a label with no observed job and an
\* expected total of 2 shown as UNREADY
LabelRowCountsWitness ==
    /\ pc = "done"
    /\ label_order = <<PipetaskInit, Isr, Cal>>
    /\ Len(Jobs) = 1
    /\ Jobs[1].label = Isr
    /\ details[3].expected = 2
    /\ SumValues(details[3].counts) = 1
    /\ details[4].counts["UNREADY"] = 2

====
